---- MODULE Spec2Model ----
(***************************************************************************)
(* ChessPredictor (src/chess_predictor.py): the interactive position       *)
(* manager and the background engine workers.                              *)
(*                                                                         *)
(* The interaction thread (ChessPredictor.run) is one action per pygame    *)
(* event handler.  The background threads (ai_worker, comparison_worker)   *)
(* are one action per statement that reads or writes shared state, so that *)
(* every interleaving with the interaction thread is explored.             *)
(*                                                                         *)
(* The rules library (python-chess) is modelled on a one-file board of     *)
(* NSq squares: a king steps one square, a queen slides, a pawn steps one  *)
(* square forward (white towards NSq, black towards 1) and promotes on the *)
(* last square.  A FEN is the piece placement and the side to move.        *)
(*                                                                         *)
(* DatasetProcessor (src/dataset_processor.py), the offline pipeline, is   *)
(* a second program with a state of its own: process_files is one action   *)
(* per loop turn, parse_game, extract_positions and find_pgn_files are     *)
(* operators computed as the code computes them.                           *)
(***************************************************************************)
EXTENDS Integers, Sequences, FiniteSets, TLC

\* ---------------------------------------------------------------- bounds
NSq    == 5     \* squares of the board
MaxAI  == 2     \* ai_worker threads the model has room for
MaxCmp == 2     \* comparison_worker threads the model has room for

\* ------------------------------------------------------- program constants
TopAI  == 12    \* get_top_moves(12)
TopCmp == 5     \* get_top_moves(5)
AiRank == 9     \* min(9, len(top_moves) - 1)

SETUP_MODE    == "setup"
ANALYSIS_MODE == "analysis"
PLAY_MODE     == "play"
Modes == {SETUP_MODE, ANALYSIS_MODE, PLAY_MODE}

WHITE == "w"
BLACK == "b"
Colors == {WHITE, BLACK}
Other(c) == IF c = WHITE THEN BLACK ELSE WHITE

\* Optional values: None is the empty tuple, a present value a 1-tuple.
None    == << >>
Some(x) == <<x>>

\* ------------------------------------------------------------ the board
Squares == 1..NSq
Empty   == "--"

ColorOf(p) == IF p \in {"wK", "wQ", "wP"} THEN WHITE ELSE BLACK
KindOf(p)  == CASE p \in {"wK", "bK"} -> "K"
                [] p \in {"wQ", "bQ"} -> "Q"
                [] OTHER              -> "P"
PieceOf(c, k) == IF c = WHITE
                 THEN (CASE k = "K" -> "wK" [] k = "Q" -> "wQ" [] OTHER -> "wP")
                 ELSE (CASE k = "K" -> "bK" [] k = "Q" -> "bQ" [] OTHER -> "bP")

EmptySquares == [s \in Squares |-> Empty]

\* chess.Board(): the white king on the first square, a white pawn on the
\* third, the black king on the last, white to move, no move pushed.
StartSquares ==
  [s \in Squares |-> CASE s = 1   -> "wK"
                       [] s = 3   -> "wP"
                       [] s = NSq -> "bK"
                       [] OTHER   -> Empty]

StartBoard == [sq |-> StartSquares, turn |-> WHITE, stack |-> << >>]

\* chess.Board(fen=None)
EmptyBoard == [sq |-> EmptySquares, turn |-> WHITE, stack |-> << >>]

\* board.fen(): placement and side to move; the move stack is not part of it.
Fen(b) == [sq |-> b.sq, turn |-> b.turn]

\* chess.Move(from_square, to_square[, promotion])
Move(f, t)  == [from |-> f, to |-> t, promo |-> ""]
AllMoves    == [from : Squares, to : Squares, promo : {"", "q"}]

\* str(move): the UCI identifier, and chess.Move.from_uci back.
Uci(m)     == ToString(m.from) \o ToString(m.to) \o m.promo
FromUci(u) == CHOOSE m \in AllMoves : Uci(m) = u

\* ----------------------------------------------------- the rules library
Between(a, b) == {s \in Squares : (a < s /\ s < b) \/ (b < s /\ s < a)}
Dist(a, b)    == IF a < b THEN b - a ELSE a - b
Forward(c)    == IF c = WHITE THEN 1 ELSE -1
LastSquare(c) == IF c = WHITE THEN NSq ELSE 1

\* the piece on f attacks t
Attacks(sq, f, t) ==
  /\ sq[f] # Empty
  /\ f # t
  /\ CASE KindOf(sq[f]) = "K" -> Dist(f, t) = 1
       [] KindOf(sq[f]) = "Q" -> \A s \in Between(f, t) : sq[s] = Empty
       [] OTHER               -> FALSE

\* A faulty variant of the rule: it also takes a pawn's move to its last
\* square when no promotion piece is named.
PseudoLegalPawnToLast(pos, m) ==
  LET p == pos.sq[m.from] IN
  /\ p # Empty
  /\ ColorOf(p) = pos.turn
  /\ m.from # m.to
  /\ ~(pos.sq[m.to] # Empty /\ ColorOf(pos.sq[m.to]) = pos.turn)
  /\ IF KindOf(p) = "P"
     THEN /\ m.to = m.from + Forward(pos.turn)
          /\ pos.sq[m.to] = Empty
          /\ (m.promo = "q") => (m.to = LastSquare(pos.turn))
     ELSE /\ m.promo = ""
          /\ Attacks(pos.sq, m.from, m.to)

\* Board.is_pseudo_legal
PseudoLegal(pos, m) ==
  LET p == pos.sq[m.from] IN
  /\ p # Empty
  /\ ColorOf(p) = pos.turn
  /\ m.from # m.to
  /\ ~(pos.sq[m.to] # Empty /\ ColorOf(pos.sq[m.to]) = pos.turn)
  /\ IF KindOf(p) = "P"
     THEN /\ m.to = m.from + Forward(pos.turn)
          /\ pos.sq[m.to] = Empty
          /\ (m.promo = "q") <=> (m.to = LastSquare(pos.turn))
     ELSE /\ m.promo = ""
          /\ Attacks(pos.sq, m.from, m.to)

\* the placement after the move: the piece lands with the mover's colour
\* (Board.push calls _set_piece_at(to_square, piece_type, self.turn))
MovedSquares(pos, m) ==
  LET k == IF m.promo = "q" THEN "Q" ELSE KindOf(pos.sq[m.from]) IN
  [s \in Squares |-> CASE s = m.to   -> PieceOf(pos.turn, k)
                       [] s = m.from -> Empty
                       [] OTHER      -> pos.sq[s]]

\* Board.is_into_check: with no king of the mover on the board, never
IntoCheck(pos, m) ==
  LET after == MovedSquares(pos, m) IN
  \E k \in Squares :
     /\ after[k] = PieceOf(pos.turn, "K")
     /\ \E a \in Squares : /\ after[a] # Empty
                           /\ ColorOf(after[a]) # pos.turn
                           /\ Attacks(after, a, k)

\* board.legal_moves
LegalMoves(pos) ==
  {m \in AllMoves : PseudoLegal(pos, m) /\ ~IntoCheck(pos, m)}

\* Board.push: no validation; asserts that a piece stands on the source
PushRaises(b, m) == b.sq[m.from] = Empty

Push(b, m) ==
  IF PushRaises(b, m)
  THEN [b EXCEPT !.stack = Append(@, Fen(b))]
  ELSE [sq    |-> MovedSquares(b, m),
        turn  |-> Other(b.turn),
        stack |-> Append(b.stack, Fen(b))]

\* ------------------------------------------------------------ the oracle
\* The engine ranks the legal moves of the position it was given.  Its
\* ranking is its own: the model lets it rank by ascending or by descending
\* move key, and lets any call raise.
Rankings == {"asc", "desc"}

MoveKey(m) == m.from * 100 + m.to * 10 + (IF m.promo = "q" THEN 1 ELSE 0)

RECURSIVE SortMoves(_, _)
SortMoves(S, r) ==
  IF S = {} THEN << >>
  ELSE LET m == CHOOSE x \in S : \A y \in S :
                   IF r = "asc" THEN MoveKey(x) <= MoveKey(y)
                                ELSE MoveKey(x) >= MoveKey(y)
       IN <<m>> \o SortMoves(S \ {m}, r)

Prefix(seq, n) == SubSeq(seq, 1, IF Len(seq) < n THEN Len(seq) ELSE n)

\* One entry of Stockfish.get_top_moves: the move id and its centipawn score
\* (None when the engine reports a forced mate instead).
Entry(pos, m, i) ==
  LET after == [sq |-> MovedSquares(pos, m), turn |-> Other(pos.turn)] IN
  [Move      |-> Uci(m),
   Centipawn |-> IF LegalMoves(after) = {} THEN None ELSE Some(30 - 10 * i)]

\* Stockfish.get_top_moves(n) after set_fen_position(pos)
TopMoves(pos, n, r) ==
  LET ranked == Prefix(SortMoves(LegalMoves(pos), r), n) IN
  [i \in 1..Len(ranked) |-> Entry(pos, ranked[i], i)]

\* ------------------------------------------------------------- the state
AiIds  == 1..MaxAI
CmpIds == 1..MaxCmp

CastlingNames ==
  {"white_kingside", "white_queenside", "black_kingside", "black_queenside"}

VARIABLES
  board,                \* self.board: sq, turn and the stack of pushed states
  current_mode,         \* self.current_mode
  active_color,         \* self.active_color
  castling_rights,      \* self.castling_rights
  play_vs_ai,           \* self.play_vs_ai
  stockfish_ai,         \* TRUE iff self.stockfish_ai is an engine (not None)
  ai_thinking,          \* self.ai_thinking
  last_ai_move,         \* self.last_ai_move: a string, "None" for None
  last_ai_eval,         \* self.last_ai_eval in hundredths of a pawn, optional
  ai_suggested_square,  \* self.ai_suggested_square, optional
  stockfish_comparison, \* self.stockfish_comparison, optional
  move_history,         \* self.move_history
  position_history,     \* self.position_history
  selected_piece,       \* self.selected_piece, optional
  dragging,             \* self.dragging
  valid_moves,          \* self.valid_moves
  sf_fen,               \* the position last given to the engine
  aiw,                  \* the ai_worker threads: position and locals
  cmpw,                 \* the comparison_worker threads: position and locals
  budget,               \* what the run may still do: moves, placements, requests
  ev,                   \* the drag just released: its target and its outcome
  disk,                 \* what self.dataset_path names, and the games in each file
  max_games,            \* process_files: its argument max_games
  pgn_files,            \* process_files: pgn_files
  file_no,              \* process_files: the place of pgn_file in pgn_files
  f,                    \* process_files: the games already read from f
  processed_games,      \* process_files: processed_games
  skipped_games,        \* process_files: skipped_games
  all_positions,        \* process_files: all_positions
  dpc,                  \* process_files: the statement it is at
  game,                 \* the game handed to parse_game or extract_positions
  game_info,            \* what parse_game returned, optional
  gen                   \* extract_positions: board, move_number and rows yielded

vars == <<board, current_mode, active_color, castling_rights, play_vs_ai,
          stockfish_ai, ai_thinking, last_ai_move, last_ai_eval,
          ai_suggested_square, stockfish_comparison, move_history,
          position_history, selected_piece, dragging, valid_moves, sf_fen,
          aiw, cmpw, budget, ev, disk, max_games, pgn_files, file_no, f,
          processed_games, skipped_games, all_positions, dpc, game, game_info,
          gen>>

\* the two programs share no state: the interactive application (app) and
\* the offline DatasetProcessor (dataset)
app == <<board, current_mode, active_color, castling_rights, play_vs_ai,
         stockfish_ai, ai_thinking, last_ai_move, last_ai_eval,
         ai_suggested_square, stockfish_comparison, move_history,
         position_history, selected_piece, dragging, valid_moves, sf_fen,
         aiw, cmpw, budget, ev>>
dataset == <<disk, max_games, pgn_files, file_no, f, processed_games,
             skipped_games, all_positions, dpc, game, game_info, gen>>

store  == <<board, move_history, position_history>>
panel  == <<current_mode, active_color, castling_rights, play_vs_ai>>
select == <<selected_piece, dragging, valid_moves>>
slot   == <<last_ai_move, last_ai_eval, ai_suggested_square>>

\* ev remembers the release of a drag: where, and whether the action was
\* applied; every other step forgets it
Event(op, arg, ok) == [op |-> op, arg |-> arg, ok |-> ok]
NoEvent == Event("", 0, TRUE)

\* a thread not running; a thread closure just created by get_ai_move
IdleAi == [pc |-> "idle", fen |-> None, sel |-> "", cp |-> 0,
           superseded |-> FALSE]
NewAi  == [IdleAi EXCEPT !.pc = "start"]

\* a comparison thread not running; one created for user_move, where want is
\* the FEN that make_move recorded for that move
IdleCmp == [pc |-> "idle", user_move |-> "", want |-> None, fen |-> None]
NewCmp(user_move, want) ==
  [pc |-> "start", user_move |-> user_move, want |-> Some(want), fen |-> None]

FreeAi  == {w \in AiIds : aiw[w].pc = "idle"}
FreeCmp == {c \in CmpIds : cmpw[c].pc = "idle"}
Lowest(S) == CHOOSE x \in S : \A y \in S : x <= y

\* the budget of a run: moves and Setup placements it may make, engine
\* requests it may issue, worker threads alive at once, castling boxes
\* unticked at once
Budget(move, place, req, ai, cmp, off) ==
  [move |-> move, place |-> place, req |-> req, ai |-> ai, cmp |-> cmp,
   off |-> off]

\* ===================================================== DatasetProcessor
\* The offline data set pipeline (src/dataset_processor.py).  A header value
\* is text, a sequence of characters; a header a game does not have is None.
\* The board of a game is kept as far as the pipeline looks at it: how many
\* pieces stand on it, whose turn it is and the number of the full move.
MinElo       == 2400   \* white_elo < 2400 or black_elo < 2400
MinBaseTime  == 600    \* base_time < 600
OpeningPlies == 10     \* move_number <= 10
MinPieces    == 10     \* len(board.piece_map()) < 10

Digits == <<"0", "1", "2", "3", "4", "5", "6", "7", "8", "9">>

\* int(text) for a text of decimal digits, and when it raises ValueError
RECURSIVE Decimal(_)
Decimal(text) ==
  IF text = << >> THEN 0
  ELSE 10 * Decimal(SubSeq(text, 1, Len(text) - 1))
         + (CHOOSE d \in 1..10 : Digits[d] = text[Len(text)]) - 1
IntRaises(text) ==
  \/ text = << >>
  \/ \E i \in 1..Len(text) : \A d \in 1..10 : Digits[d] # text[i]

\* int(headers.get(key, 0)): the default 0 is a number already
HeaderInt(value)       == IF value = None THEN 0 ELSE Decimal(value[1])
HeaderIntRaises(value) == value # None /\ IntRaises(value[1])

\* '+' in time_control, and time_control.split('+')[0]
HasPlus(text) == \E i \in 1..Len(text) : text[i] = "+"
BeforePlus(text) ==
  SubSeq(text, 1, (CHOOSE i \in 1..Len(text) :
                     text[i] = "+" /\ \A j \in 1..(i - 1) : text[j] # "+") - 1)

\* ------------------------------------------ DatasetProcessor.parse_game
\* the game's record, or None for a game to skip; a ValueError of int() is
\* caught at line 69 and gives None as well
ParseGame(g) ==
  LET headers == g.headers IN
  IF HeaderIntRaises(headers.WhiteElo) \/ HeaderIntRaises(headers.BlackElo)
  THEN None
  ELSE
    LET white_elo == HeaderInt(headers.WhiteElo)
        black_elo == HeaderInt(headers.BlackElo)
        time_control == IF headers.TimeControl = None THEN << >>
                        ELSE headers.TimeControl[1]
        info == [white_elo |-> white_elo, black_elo |-> black_elo,
                 time_control |-> time_control]
    IN IF white_elo < MinElo \/ black_elo < MinElo THEN None
       ELSE IF HasPlus(time_control)
            THEN IF IntRaises(BeforePlus(time_control)) THEN None
                 ELSE IF Decimal(BeforePlus(time_control)) < MinBaseTime
                      THEN None
                      ELSE Some(info)
            ELSE Some(info)

\* ------------------------------------ DatasetProcessor.extract_positions
\* game.board(), Board.push for a move that takes a piece or does not,
\* Board.fen() and len(board.piece_map())
GameBoard(g) == [pieces |-> g.setup, turn |-> WHITE, fullmove |-> 1]
PushPly(b, move) ==
  [pieces   |-> IF move.capture THEN b.pieces - 1 ELSE b.pieces,
   turn     |-> Other(b.turn),
   fullmove |-> IF b.turn = BLACK THEN b.fullmove + 1 ELSE b.fullmove]
BoardFen(b)    == <<b.pieces, b.turn, b.fullmove>>
PieceMapLen(b) == b.pieces

\* position_data of lines 96-104
PositionData(b, move, move_number) ==
  [fen         |-> BoardFen(b),
   move        |-> move,
   move_number |-> move_number,
   to_move     |-> IF b.turn = WHITE THEN "white" ELSE "black",
   piece_count |-> PieceMapLen(b)]

\* the generator's frame before the first move
NewGen(g) == [board |-> GameBoard(g), move_number |-> 0, rows |-> << >>]

\* A faulty variant: a ply skipped for its piece count is not played on the
\* board.
ExtractPlyKeepsBoard(st, move) ==
  LET move_number == st.move_number + 1 IN
  IF move_number <= OpeningPlies
  THEN [st EXCEPT !.move_number = move_number,
                  !.board = PushPly(st.board, move)]
  ELSE IF PieceMapLen(st.board) < MinPieces
       THEN [st EXCEPT !.move_number = move_number]
       ELSE [board       |-> PushPly(st.board, move),
             move_number |-> move_number,
             rows        |-> Append(st.rows,
                               PositionData(st.board, move, move_number))]

\* one turn of the loop of lines 82-107
ExtractPly(st, move) ==
  LET move_number == st.move_number + 1 IN
  IF move_number <= OpeningPlies
  THEN [st EXCEPT !.move_number = move_number,
                  !.board = PushPly(st.board, move)]
  ELSE IF PieceMapLen(st.board) < MinPieces
       THEN [st EXCEPT !.move_number = move_number,
                       !.board = PushPly(st.board, move)]
       ELSE [board       |-> PushPly(st.board, move),
             move_number |-> move_number,
             rows        |-> Append(st.rows,
                               PositionData(st.board, move, move_number))]

\* list(self.extract_positions(game))
RECURSIVE ExtractFrom(_, _)
ExtractFrom(g, k) ==
  IF k = 0 THEN NewGen(g)
  ELSE CHOOSE next \in {ExtractPly(st, g.moves[k]) :
                          st \in {ExtractFrom(g, k - 1)}} : TRUE
ExtractPositions(g) == ExtractFrom(g, Len(g.moves)).rows

\* -------------------------------------- DatasetProcessor.find_pgn_files
\* A path below dataset_path is the sequence of its names, a name a stem
\* and a suffix; Root is dataset_path itself.  Paths compare name by name.
Name(stem, suffix) == [stem |-> stem, suffix |-> suffix]
Root == << >>
RECURSIVE PathLess(_, _)
PathLess(p, q) ==
  IF p = << >> THEN q # << >>
  ELSE IF q = << >> THEN FALSE
  ELSE IF p[1].stem # q[1].stem THEN p[1].stem < q[1].stem
  ELSE PathLess(Tail(p), Tail(q))

\* the files a glob yields, in the order of the directory
Listing(S) ==
  CHOOSE l \in [1..Cardinality(S) -> S] : \A p \in S : \E i \in DOMAIN l : l[i] = p

\* sorted(pgn_files): every entry of the list is kept, equal ones in the
\* order they had
Sorted(seq) ==
  LET Before(j, k) == PathLess(seq[j], seq[k]) \/ (seq[j] = seq[k] /\ j < k)
      Place(j)     == Cardinality({k \in 1..Len(seq) : Before(k, j)}) + 1
  IN [r \in 1..Len(seq) |-> seq[CHOOSE j \in 1..Len(seq) : Place(j) = r]]

\* dataset_path.glob('*.pgn') and dataset_path.glob('**/*.pgn'): the second
\* pattern matches in the directory itself and in every directory below
FindPgnFiles(d) ==
  IF d.kind = "file" /\ d.suffix = ".pgn" THEN <<Root>>
  ELSE IF d.kind = "dir"
       THEN Sorted(
              Listing({p \in DOMAIN d.content :
                         Len(p) = 1 /\ p[1].suffix = ".pgn"})
              \o Listing({p \in DOMAIN d.content :
                            Len(p) >= 1 /\ p[Len(p)].suffix = ".pgn"}))
       ELSE << >>

\* no DatasetProcessor made
NoDisk == [kind |-> "none", suffix |-> "", content |-> << >>]
NoGame ==
  [headers |-> [WhiteElo |-> None, BlackElo |-> None, TimeControl |-> None],
   setup   |-> 0,
   moves   |-> << >>]
Running(d, n, pc, g) ==
  /\ disk = d
  /\ max_games = n
  /\ pgn_files = << >>
  /\ file_no = 0
  /\ f = 0
  /\ processed_games = 0
  /\ skipped_games = 0
  /\ all_positions = << >>
  /\ dpc = pc
  /\ game = g
  /\ game_info = None
  /\ gen = NewGen(g)
NoDataset == Running(NoDisk, 0, "idle", NoGame)

\* ChessPredictor.__init__, with an engine (engine) or without, followed by
\* the clicks that select mode and set the VS AI box to vs_ai: they change
\* nothing else of the constructed state
App(engine, mode, vs_ai, b) ==
  /\ board = StartBoard
  /\ current_mode = mode
  /\ active_color = WHITE
  /\ castling_rights = [n \in CastlingNames |-> TRUE]
  /\ play_vs_ai = vs_ai
  /\ stockfish_ai = engine
  /\ ai_thinking = FALSE
  /\ last_ai_move = "None"
  /\ last_ai_eval = None
  /\ ai_suggested_square = None
  /\ stockfish_comparison = None
  /\ move_history = << >>
  /\ position_history = << >>
  /\ selected_piece = None
  /\ dragging = FALSE
  /\ valid_moves = {}
  /\ sf_fen = Fen(StartBoard)
  /\ aiw = [w \in AiIds |-> IdleAi]
  /\ cmpw = [c \in CmpIds |-> IdleCmp]
  /\ budget = b
  /\ ev = NoEvent

\* the application started, and no DatasetProcessor
Started(engine, mode, vs_ai, b) == App(engine, mode, vs_ai, b) /\ NoDataset

\* the state __init__ leaves: Setup mode, VS AI off
Construct(engine, b) == Started(engine, SETUP_MODE, FALSE, b)

\* ------------------------------------------- ChessPredictor.is_valid_move
\* Two faulty variants, which the properties below must tell from the code:
\* one that forgets the legality test outside Setup, one that forgets the
\* king rule of Setup.
IsValidMoveLax(from, to) ==
  IF current_mode = SETUP_MODE
  THEN ~(board.sq[to] # Empty /\ KindOf(board.sq[to]) = "K")
  ELSE TRUE

IsValidMoveNoKingRule(from, to) ==
  IF current_mode = SETUP_MODE
  THEN TRUE
  ELSE Move(from, to) \in LegalMoves(Fen(board))

IsValidMove(from, to) ==
  IF current_mode = SETUP_MODE
  THEN ~(board.sq[to] # Empty /\ KindOf(board.sq[to]) = "K")
  ELSE Move(from, to) \in LegalMoves(Fen(board))

\* ---------------------------------- ChessPredictor.get_stockfish_comparison
\* (GetStockfishComparisonAlways is a faulty variant: it starts the thread
\* whether an engine is there or not)
GetStockfishComparisonAlways(user_move, want) ==
  IF FreeCmp # {}
  THEN cmpw' = [cmpw EXCEPT ![Lowest(FreeCmp)] = NewCmp(user_move, want)]
  ELSE UNCHANGED cmpw

\* starts a comparison_worker thread for user_move when an engine is there
GetStockfishComparison(user_move, want) ==
  IF stockfish_ai
  THEN /\ Cardinality(CmpIds \ FreeCmp) < budget.cmp
       /\ cmpw' = [cmpw EXCEPT ![Lowest(FreeCmp)] = NewCmp(user_move, want)]
  ELSE UNCHANGED cmpw

\* ------------------------------------------------ ChessPredictor.make_move
\* A faulty variant: it starts the histories afresh with each move.
MakeMoveRestarts(move) ==
  IF move \in LegalMoves(Fen(board))
  THEN /\ budget.move > 0
       /\ move_history' = <<move>>
       /\ position_history' = <<Fen(board)>>
       /\ board' = Push(board, move)
       /\ GetStockfishComparison(Uci(move), Fen(board))
  ELSE UNCHANGED <<store, cmpw>>

\* A faulty variant: it does not record the position before the move.
MakeMoveNoPosition(move) ==
  IF move \in LegalMoves(Fen(board))
  THEN /\ budget.move > 0
       /\ move_history' = Append(move_history, move)
       /\ position_history' = position_history
       /\ board' = Push(board, move)
       /\ GetStockfishComparison(Uci(move), Fen(board))
  ELSE UNCHANGED <<store, cmpw>>

\* as one step, which is how the interaction thread runs it
MakeMove(move) ==
  IF move \in LegalMoves(Fen(board))
  THEN /\ budget.move > 0
       /\ move_history' = Append(move_history, move)
       /\ position_history' = Append(position_history, Fen(board))
       /\ board' = Push(board, move)
       /\ GetStockfishComparison(Uci(move), Fen(board))
  ELSE UNCHANGED <<store, cmpw>>

\* ---------------------------------------------- ChessPredictor.get_ai_move
\* the part run by the caller: the sentinel without an engine, else the
\* "cancel" of a running request and the start of a new ai_worker thread.
\* Every request still running is marked superseded (a history variable).
\* lines 481-484: with a request marked busy the caller itself runs
\* time.sleep(0.1) before it starts the new thread
GetAiMoveSleeps == stockfish_ai /\ ai_thinking

GetAiMove ==
  IF ~stockfish_ai
  THEN /\ last_ai_move' = "No AI available"
       /\ last_ai_eval' = None
       /\ UNCHANGED <<ai_thinking, aiw>>
  ELSE /\ Cardinality(AiIds \ FreeAi) < budget.ai
       /\ budget.req > 0
       /\ ai_thinking' = FALSE
       /\ aiw' = [w \in AiIds |->
                    IF w = Lowest(FreeAi) THEN NewAi
                    ELSE IF aiw[w].pc # "idle"
                         THEN [aiw[w] EXCEPT !.superseded = TRUE]
                         ELSE aiw[w]]
       /\ UNCHANGED <<last_ai_move, last_ai_eval>>

\* ------------------------------------------- ChessPredictor.run: the events
\* The left button is either up or down: a press on the board that picks a
\* piece up starts a drag, and the next event is its release.

\* MOUSEBUTTONDOWN on square s of the board
MouseDown(s) ==
  /\ ~dragging
  /\ LET piece == board.sq[s] IN
     IF current_mode = SETUP_MODE
     THEN IF piece # Empty
          THEN /\ selected_piece' = Some(s)
               /\ dragging' = TRUE
               /\ UNCHANGED valid_moves
          ELSE UNCHANGED select
     ELSE IF piece # Empty /\ ColorOf(piece) = board.turn
          THEN /\ selected_piece' = Some(s)
               /\ dragging' = TRUE
               /\ valid_moves' = {m.to : m \in {x \in LegalMoves(Fen(board)) :
                                                 x.from = s}}
          ELSE /\ selected_piece' = None
               /\ valid_moves' = {}
               /\ UNCHANGED dragging
  /\ ev' = NoEvent
  /\ UNCHANGED dataset
  /\ UNCHANGED <<store, panel, stockfish_ai, ai_thinking, slot,
                 stockfish_comparison, sf_fen, aiw, cmpw, budget>>

\* the Setup placement: remove_piece_at(source), remove_piece_at(target),
\* set_piece_at(target, piece), where set_piece_at(target, None) removes.
\* Board.remove_piece_at and Board.set_piece_at end with clear_stack(): the
\* moves pushed on the board are forgotten.
\* (SetupCopy is a faulty variant that leaves the piece on the source too)
SetupCopy(b, from, to) ==
  [b EXCEPT !.sq = [b.sq EXCEPT ![to] = b.sq[from]], !.stack = << >>]

\* (SetupPlacePassesTurn is a faulty variant that gives the move to the
\* other side)
SetupPlacePassesTurn(b, from, to) ==
  LET piece == b.sq[from]
      r1    == [b.sq EXCEPT ![from] = Empty]
      r2    == [r1 EXCEPT ![to] = Empty]
  IN [sq |-> [r2 EXCEPT ![to] = piece], turn |-> Other(b.turn),
      stack |-> << >>]

SetupPlace(b, from, to) ==
  LET piece == b.sq[from]
      r1    == [b.sq EXCEPT ![from] = Empty]
      r2    == [r1 EXCEPT ![to] = Empty]
  IN [b EXCEPT !.sq = [r2 EXCEPT ![to] = piece], !.stack = << >>]

\* A faulty variant of the release: it asks the engine after every move made
\* in Play mode with VS AI on, whoever is to move.
MouseUpAnyTurn(target) ==
  /\ dragging
  /\ LET from == selected_piece[1] IN
     IF target # 0 /\ IsValidMove(from, target)
     THEN IF current_mode = SETUP_MODE
          THEN /\ budget.place > 0
               /\ budget' = [budget EXCEPT !.place = @ - 1]
               /\ board' = SetupPlace(board, from, target)
               /\ ev' = Event("mouse_up", target, TRUE)
               /\ UNCHANGED dataset
               /\ UNCHANGED <<move_history, position_history, cmpw,
                              ai_thinking, aiw, last_ai_move, last_ai_eval>>
          ELSE /\ MakeMove(Move(from, target))
               /\ ev' = Event("mouse_up", target, TRUE)
               /\ UNCHANGED dataset
               /\ IF /\ current_mode = PLAY_MODE
                     /\ play_vs_ai
                  THEN /\ GetAiMove
                       /\ budget' = [budget EXCEPT
                                       !.move = @ - 1,
                                       !.req = IF stockfish_ai THEN @ - 1 ELSE @]
                  ELSE /\ budget' = [budget EXCEPT !.move = @ - 1]
                       /\ UNCHANGED <<ai_thinking, aiw, last_ai_move,
                                      last_ai_eval>>
     ELSE /\ ev' = Event("mouse_up", target, FALSE)
          /\ UNCHANGED dataset
          /\ UNCHANGED <<store, cmpw, ai_thinking, aiw, last_ai_move,
                         last_ai_eval, budget>>
  /\ dragging' = FALSE
  /\ selected_piece' = None
  /\ valid_moves' = {}
  /\ UNCHANGED <<panel, stockfish_ai, ai_suggested_square,
                 stockfish_comparison, sf_fen>>

\* MOUSEBUTTONUP at target (0: off the board) while dragging
MouseUp(target) ==
  /\ dragging
  /\ LET from == selected_piece[1] IN
     IF target # 0 /\ IsValidMove(from, target)
     THEN IF current_mode = SETUP_MODE
          THEN /\ budget.place > 0
               /\ budget' = [budget EXCEPT !.place = @ - 1]
               /\ board' = SetupPlace(board, from, target)
               /\ ev' = Event("mouse_up", target, TRUE)
               /\ UNCHANGED dataset
               /\ UNCHANGED <<move_history, position_history, cmpw,
                              ai_thinking, aiw, last_ai_move, last_ai_eval>>
          ELSE /\ MakeMove(Move(from, target))
               /\ ev' = Event("mouse_up", target, TRUE)
               /\ UNCHANGED dataset
               /\ IF /\ current_mode = PLAY_MODE
                     /\ play_vs_ai
                     /\ board'.turn # active_color
                  THEN /\ GetAiMove
                       /\ budget' = [budget EXCEPT
                                       !.move = @ - 1,
                                       !.req = IF stockfish_ai THEN @ - 1 ELSE @]
                  ELSE /\ budget' = [budget EXCEPT !.move = @ - 1]
                       /\ UNCHANGED <<ai_thinking, aiw, last_ai_move,
                                      last_ai_eval>>
     ELSE /\ ev' = Event("mouse_up", target, FALSE)
          /\ UNCHANGED dataset
          /\ UNCHANGED <<store, cmpw, ai_thinking, aiw, last_ai_move,
                         last_ai_eval, budget>>
  /\ dragging' = FALSE
  /\ selected_piece' = None
  /\ valid_moves' = {}
  /\ UNCHANGED <<panel, stockfish_ai, ai_suggested_square,
                 stockfish_comparison, sf_fen>>

\* ------------------------------------ ChessPredictor.handle_button_click
\* button_name.replace('_mode', '')
ModeButtons == {"setup_mode", "analysis_mode", "play_mode"}
ModeOfButton(name) == CASE name = "setup_mode"    -> "setup"
                        [] name = "analysis_mode" -> "analysis"
                        [] name = "play_mode"     -> "play"

\* A faulty variant of the mode buttons: it also sets the start position up.
SelectModeAndReset(name) ==
  /\ ~dragging
  /\ current_mode' = ModeOfButton(name)
  /\ valid_moves' = {}
  /\ board' = StartBoard
  /\ move_history' = << >>
  /\ position_history' = << >>
  /\ ev' = NoEvent
  /\ UNCHANGED dataset
  /\ UNCHANGED <<active_color, castling_rights, play_vs_ai, stockfish_ai,
                 ai_thinking, slot, stockfish_comparison, selected_piece,
                 dragging, sf_fen, aiw, cmpw, budget>>

SelectMode(name) ==
  /\ ~dragging
  /\ current_mode' = ModeOfButton(name)
  /\ valid_moves' = {}
  /\ ev' = NoEvent
  /\ UNCHANGED dataset
  /\ UNCHANGED <<store, active_color, castling_rights, play_vs_ai,
                 stockfish_ai, ai_thinking, slot, stockfish_comparison,
                 selected_piece, dragging, sf_fen, aiw, cmpw,
                 budget>>

\* A faulty variant: it sets the user's colour and leaves the board's side
\* to move.
SetActiveColorOnly(c) ==
  /\ ~dragging
  /\ active_color' = c
  /\ ev' = NoEvent
  /\ UNCHANGED dataset
  /\ UNCHANGED <<store, current_mode, castling_rights, play_vs_ai,
                 stockfish_ai, ai_thinking, slot, stockfish_comparison,
                 select, sf_fen, aiw, cmpw, budget>>

\* 'white_to_move' and 'black_to_move'
SetActiveColor(c) ==
  /\ ~dragging
  /\ active_color' = c
  /\ board' = [board EXCEPT !.turn = c]
  /\ ev' = NoEvent
  /\ UNCHANGED dataset
  /\ UNCHANGED <<move_history, position_history, current_mode,
                 castling_rights, play_vs_ai, stockfish_ai, ai_thinking, slot,
                 stockfish_comparison, select, sf_fen, aiw, cmpw,
                 budget>>

\* A faulty variant: it sets the position up again to carry the new rights,
\* and so forgets the moves pushed on the board.
ToggleCastlingNewBoard(name) ==
  /\ ~dragging
  /\ castling_rights' = [castling_rights EXCEPT ![name] = ~@]
  /\ Cardinality({n \in CastlingNames : ~castling_rights'[n]}) <= budget.off
  /\ board' = [board EXCEPT !.stack = << >>]
  /\ ev' = NoEvent
  /\ UNCHANGED dataset
  /\ UNCHANGED <<move_history, position_history, current_mode, active_color,
                 play_vs_ai, stockfish_ai, ai_thinking, slot,
                 stockfish_comparison, select, sf_fen, aiw, cmpw, budget>>

ToggleCastling(name) ==
  /\ ~dragging
  /\ castling_rights' = [castling_rights EXCEPT ![name] = ~@]
  /\ Cardinality({n \in CastlingNames : ~castling_rights'[n]}) <= budget.off
  /\ ev' = NoEvent
  /\ UNCHANGED dataset
  /\ UNCHANGED <<store, current_mode, active_color, play_vs_ai, stockfish_ai,
                 ai_thinking, slot, stockfish_comparison, select, sf_fen,
                 aiw, cmpw,
                 budget>>

\* A faulty variant: clearing the board also goes back to Setup mode.
ClearBoardToSetup ==
  /\ ~dragging
  /\ board' = EmptyBoard
  /\ move_history' = << >>
  /\ position_history' = << >>
  /\ stockfish_comparison' = None
  /\ last_ai_move' = "None"
  /\ current_mode' = SETUP_MODE
  /\ ev' = NoEvent
  /\ UNCHANGED dataset
  /\ UNCHANGED <<active_color, castling_rights, play_vs_ai, stockfish_ai,
                 ai_thinking, last_ai_eval, ai_suggested_square, select,
                 sf_fen, aiw, cmpw, budget>>

ClearBoard ==
  /\ ~dragging
  /\ board' = EmptyBoard
  /\ move_history' = << >>
  /\ position_history' = << >>
  /\ stockfish_comparison' = None
  /\ last_ai_move' = "None"
  /\ ev' = NoEvent
  /\ UNCHANGED dataset
  /\ UNCHANGED <<panel, stockfish_ai, ai_thinking, last_ai_eval,
                 ai_suggested_square, select, sf_fen, aiw, cmpw,
                 budget>>

\* A faulty variant: it sets the pieces up and keeps the side to move.
ResetKeepsSide ==
  /\ ~dragging
  /\ board' = [StartBoard EXCEPT !.turn = board.turn]
  /\ move_history' = << >>
  /\ position_history' = << >>
  /\ stockfish_comparison' = None
  /\ last_ai_move' = "None"
  /\ ev' = NoEvent
  /\ UNCHANGED dataset
  /\ UNCHANGED <<panel, stockfish_ai, ai_thinking, last_ai_eval,
                 ai_suggested_square, select, sf_fen, aiw, cmpw,
                 budget>>

ResetPosition ==
  /\ ~dragging
  /\ board' = StartBoard
  /\ move_history' = << >>
  /\ position_history' = << >>
  /\ stockfish_comparison' = None
  /\ last_ai_move' = "None"
  /\ ev' = NoEvent
  /\ UNCHANGED dataset
  /\ UNCHANGED <<panel, stockfish_ai, ai_thinking, last_ai_eval,
                 ai_suggested_square, select, sf_fen, aiw, cmpw,
                 budget>>

GetBestMove ==
  /\ ~dragging
  /\ GetAiMove
  /\ budget' = [budget EXCEPT !.req = IF stockfish_ai THEN @ - 1 ELSE @]
  /\ ev' = NoEvent
  /\ UNCHANGED dataset
  /\ UNCHANGED <<store, panel, stockfish_ai, ai_suggested_square,
                 stockfish_comparison, select, sf_fen, cmpw>>

ToggleVsAi ==
  /\ ~dragging
  /\ play_vs_ai' = ~play_vs_ai
  /\ ev' = NoEvent
  /\ UNCHANGED dataset
  /\ UNCHANGED <<store, current_mode, active_color, castling_rights,
                 stockfish_ai, ai_thinking, slot, stockfish_comparison,
                 select, sf_fen, aiw, cmpw,
                 budget>>

\* ------------------------------------------ get_ai_move.ai_worker, thread w
AiAt(w, pc) == aiw[w].pc = pc
AiGoto(w, pc) == aiw' = [aiw EXCEPT ![w].pc = pc]

\* (MoveIndexBest is a faulty variant: it always takes the best candidate)
MoveIndexBest(top) == 0

\* min(9, len(top_moves) - 1): the 0-based index of the selected candidate
MoveIndex(top) == IF AiRank < Len(top) - 1 THEN AiRank ELSE Len(top) - 1

\* selected_move['Centipawn'] if selected_move['Centipawn'] else 0
Centipawns(entry) ==
  IF entry.Centipawn = None \/ entry.Centipawn = Some(0)
  THEN 0 ELSE entry.Centipawn[1]

\* self.ai_thinking = True
AiStart(w) ==
  /\ AiAt(w, "start")
  /\ ai_thinking' = TRUE
  /\ AiGoto(w, "set_fen")
  /\ ev' = NoEvent
  /\ UNCHANGED dataset
  /\ UNCHANGED <<store, panel, stockfish_ai, slot, stockfish_comparison,
                 select, sf_fen, cmpw,
                 budget>>

\* self.stockfish_ai.set_fen_position(self.board.fen())
AiSetFen(w) ==
  /\ AiAt(w, "set_fen")
  /\ sf_fen' = Fen(board)
  /\ aiw' = [aiw EXCEPT ![w].pc = "top", ![w].fen = Some(Fen(board))]
  /\ ev' = NoEvent
  /\ UNCHANGED dataset
  /\ UNCHANGED <<store, panel, stockfish_ai, ai_thinking, slot,
                 stockfish_comparison, select, cmpw,
                 budget>>

\* top_moves = self.stockfish_ai.get_top_moves(12), answered by top_moves,
\* and the selection of move_uci and centipawns
AiTopOf(w, top_moves) ==
  /\ AiAt(w, "top")
  /\ IF top_moves = << >>
     THEN AiGoto(w, "none_move")
     ELSE LET selected_move == top_moves[MoveIndex(top_moves) + 1] IN
          aiw' = [aiw EXCEPT ![w].pc  = "slot_move",
                             ![w].sel = selected_move.Move,
                             ![w].cp  = Centipawns(selected_move)]
  /\ ev' = NoEvent
  /\ UNCHANGED dataset
  /\ UNCHANGED <<store, panel, stockfish_ai, ai_thinking, slot,
                 stockfish_comparison, select, sf_fen, cmpw,
                 budget>>

\* the engine ranking the moves of the position it holds by r
AiTop(w, r) == AiTopOf(w, TopMoves(sf_fen, TopAI, r))

\* the engine call raises: on to the handler of line 533
AiTopRaise(w) ==
  /\ AiAt(w, "top")
  /\ AiGoto(w, "err_move")
  /\ ev' = NoEvent
  /\ UNCHANGED dataset
  /\ UNCHANGED <<store, panel, stockfish_ai, ai_thinking, slot,
                 stockfish_comparison, select, sf_fen, cmpw,
                 budget>>

\* self.last_ai_move = "No moves" / "AI Error" / move_uci
AiSlotMove(w) ==
  /\ aiw[w].pc \in {"none_move", "err_move", "slot_move"}
  /\ last_ai_move' = CASE AiAt(w, "none_move") -> "No moves"
                       [] AiAt(w, "err_move")  -> "AI Error"
                       [] OTHER                -> aiw[w].sel
  /\ AiGoto(w, CASE AiAt(w, "none_move") -> "none_eval"
                 [] AiAt(w, "err_move")  -> "err_eval"
                 [] OTHER                -> "slot_eval")
  /\ ev' = NoEvent
  /\ UNCHANGED dataset
  /\ UNCHANGED <<store, panel, stockfish_ai, ai_thinking, last_ai_eval,
                 ai_suggested_square, stockfish_comparison, select, sf_fen,
                 cmpw,
                 budget>>

\* A faulty variant: on the failure paths it leaves the old evaluation.
AiSlotEvalKeepsOld(w) ==
  /\ aiw[w].pc \in {"none_eval", "err_eval", "slot_eval"}
  /\ last_ai_eval' = IF AiAt(w, "slot_eval") THEN Some(aiw[w].cp)
                     ELSE last_ai_eval
  /\ AiGoto(w, IF AiAt(w, "slot_eval") THEN "slot_square" ELSE "finally")
  /\ ev' = NoEvent
  /\ UNCHANGED dataset
  /\ UNCHANGED <<store, panel, stockfish_ai, ai_thinking, last_ai_move,
                 ai_suggested_square, stockfish_comparison, select, sf_fen,
                 cmpw,
                 budget>>

\* self.last_ai_eval = None / eval_pawns (centipawns / 100.0)
AiSlotEval(w) ==
  /\ aiw[w].pc \in {"none_eval", "err_eval", "slot_eval"}
  /\ last_ai_eval' = IF AiAt(w, "slot_eval") THEN Some(aiw[w].cp) ELSE None
  /\ AiGoto(w, IF AiAt(w, "slot_eval") THEN "slot_square" ELSE "finally")
  /\ ev' = NoEvent
  /\ UNCHANGED dataset
  /\ UNCHANGED <<store, panel, stockfish_ai, ai_thinking, last_ai_move,
                 ai_suggested_square, stockfish_comparison, select, sf_fen,
                 cmpw,
                 budget>>

\* self.ai_suggested_square = chess.Move.from_uci(move_uci).to_square
AiSlotSquare(w) ==
  /\ AiAt(w, "slot_square")
  /\ ai_suggested_square' = Some(FromUci(aiw[w].sel).to)
  /\ AiGoto(w, "check")
  /\ ev' = NoEvent
  /\ UNCHANGED dataset
  /\ UNCHANGED <<store, panel, stockfish_ai, ai_thinking, last_ai_move,
                 last_ai_eval, stockfish_comparison, select, sf_fen, cmpw,
                 budget>>

\* lines 523-527 and make_move's own test (line 459)
AiMayPlay(w) ==
  /\ current_mode = PLAY_MODE
  /\ play_vs_ai
  /\ FromUci(aiw[w].sel) \in LegalMoves(Fen(board))

AiCheck(w) ==
  /\ AiAt(w, "check")
  /\ AiGoto(w, IF AiMayPlay(w) THEN "hist_move" ELSE "finally")
  /\ ev' = NoEvent
  /\ UNCHANGED dataset
  /\ UNCHANGED <<store, panel, stockfish_ai, ai_thinking, slot,
                 stockfish_comparison, select, sf_fen, cmpw,
                 budget>>

\* make_move: self.move_history.append(move)
AiHistMove(w) ==
  /\ AiAt(w, "hist_move")
  /\ budget.move > 0
  /\ budget' = [budget EXCEPT !.move = @ - 1]
  /\ move_history' = Append(move_history, FromUci(aiw[w].sel))
  /\ AiGoto(w, "hist_pos")
  /\ ev' = NoEvent
  /\ UNCHANGED dataset
  /\ UNCHANGED <<board, position_history, panel, stockfish_ai, ai_thinking,
                 slot, stockfish_comparison, select, sf_fen, cmpw>>

\* make_move: self.position_history.append(self.board.fen())
AiHistPos(w) ==
  /\ AiAt(w, "hist_pos")
  /\ position_history' = Append(position_history, Fen(board))
  /\ AiGoto(w, "push")
  /\ ev' = NoEvent
  /\ UNCHANGED dataset
  /\ UNCHANGED <<board, move_history, panel, stockfish_ai, ai_thinking,
                 slot, stockfish_comparison, select, sf_fen, cmpw,
                 budget>>

\* make_move: self.board.push(move), then the comparison for it; a push that
\* raises is caught at line 530
AiPush(w) ==
  /\ AiAt(w, "push")
  /\ LET move == FromUci(aiw[w].sel) IN
     /\ board' = Push(board, move)
     /\ IF PushRaises(board, move)
        THEN UNCHANGED cmpw
        ELSE GetStockfishComparison(Uci(move), Fen(board))
     /\ ev' = NoEvent
     /\ UNCHANGED dataset
  /\ AiGoto(w, "finally")
  /\ UNCHANGED <<move_history, position_history, panel, stockfish_ai,
                 ai_thinking, slot, stockfish_comparison, select, sf_fen,
                 budget>>

\* A faulty variant: the thread ends and leaves ai_thinking as it is.
AiFinallyKeepsBusy(w) ==
  /\ AiAt(w, "finally")
  /\ aiw' = [aiw EXCEPT ![w] = IdleAi]
  /\ ev' = NoEvent
  /\ UNCHANGED dataset
  /\ UNCHANGED <<store, panel, stockfish_ai, ai_thinking, slot,
                 stockfish_comparison, select, sf_fen, cmpw,
                 budget>>

\* finally: self.ai_thinking = False, and the thread ends
AiFinally(w) ==
  /\ AiAt(w, "finally")
  /\ ai_thinking' = FALSE
  /\ aiw' = [aiw EXCEPT ![w] = IdleAi]
  /\ ev' = NoEvent
  /\ UNCHANGED dataset
  /\ UNCHANGED <<store, panel, stockfish_ai, slot, stockfish_comparison,
                 select, sf_fen, cmpw,
                 budget>>

\* ------------------- get_stockfish_comparison.comparison_worker, thread c
\* the rank of user_move: the 1-based index of its first entry, or None
\* (UserRankFromZero is a faulty variant: user_rank = i instead of i + 1)
UserRankFromZero(top_moves, user_move) ==
  LET hits == {i \in 1..Len(top_moves) : top_moves[i].Move = user_move} IN
  IF hits = {} THEN None ELSE Some(Lowest(hits) - 1)

UserRank(top_moves, user_move) ==
  LET hits == {i \in 1..Len(top_moves) : top_moves[i].Move = user_move} IN
  IF hits = {} THEN None ELSE Some(Lowest(hits))

\* formatted_moves
FormattedMoves(top_moves) ==
  [i \in 1..Len(top_moves) |-> [move      |-> top_moves[i].Move,
                                centipawn |-> top_moves[i].Centipawn,
                                mate      |-> None]]

Comparison(top_moves, user_move) ==
  [user_rank |-> UserRank(top_moves, user_move),
   top_moves |-> FormattedMoves(top_moves),
   user_move |-> user_move]

\* temp_board = self.board.copy(); temp_board.pop();
\* set_fen_position(temp_board.fen()).  pop() on a board with no move pushed
\* raises, and the handler of line 579 ends the thread.
CmpStart(c) ==
  /\ cmpw[c].pc = "start"
  /\ IF board.stack = << >>
     THEN /\ cmpw' = [cmpw EXCEPT ![c] = IdleCmp]
          /\ ev' = NoEvent
          /\ UNCHANGED dataset
          /\ UNCHANGED sf_fen
     ELSE LET temp_board == board.stack[Len(board.stack)] IN
          /\ sf_fen' = temp_board
          /\ cmpw' = [cmpw EXCEPT ![c].pc = "top", ![c].fen = Some(temp_board)]
          /\ ev' = NoEvent
          /\ UNCHANGED dataset
  /\ UNCHANGED <<store, panel, stockfish_ai, ai_thinking, slot,
                 stockfish_comparison, select, aiw,
                 budget>>

\* top_moves = get_top_moves(5) answered by top_moves, the rank, and the one
\* assignment of the result
CmpTop(c, top_moves) ==
  /\ cmpw[c].pc = "top"
  /\ stockfish_comparison' = Some(Comparison(top_moves, cmpw[c].user_move))
  /\ cmpw' = [cmpw EXCEPT ![c] = IdleCmp]
  /\ ev' = NoEvent
  /\ UNCHANGED dataset
  /\ UNCHANGED <<store, panel, stockfish_ai, ai_thinking, slot, select,
                 sf_fen, aiw,
                 budget>>

\* the engine call raises: the handler of line 579 ends the thread
CmpTopRaise(c) ==
  /\ cmpw[c].pc = "top"
  /\ cmpw' = [cmpw EXCEPT ![c] = IdleCmp]
  /\ ev' = NoEvent
  /\ UNCHANGED dataset
  /\ UNCHANGED <<store, panel, stockfish_ai, ai_thinking, slot,
                 stockfish_comparison, select, sf_fen, aiw,
                 budget>>

\* ------------------------------------------------------ the specification
Drag ==
  \/ \E s \in Squares : MouseDown(s)
  \/ \E t \in Squares \cup {0} : MouseUp(t)

Panel ==
  \/ \E n \in ModeButtons : SelectMode(n)
  \/ \E c \in Colors : SetActiveColor(c)
  \/ ClearBoard
  \/ ResetPosition
  \/ GetBestMove
  \/ ToggleVsAi

Castling == \E n \in CastlingNames : ToggleCastling(n)

AiWorker(w) ==
  \/ AiStart(w)
  \/ AiSetFen(w)
  \/ AiTopRaise(w)
  \/ \E r \in Rankings : AiTop(w, r)
  \/ AiSlotMove(w)
  \/ AiSlotEval(w)
  \/ AiSlotSquare(w)
  \/ AiCheck(w)
  \/ AiHistMove(w)
  \/ AiHistPos(w)
  \/ AiPush(w)
  \/ AiFinally(w)

CmpWorker(c) ==
  \/ CmpStart(c)
  \/ CmpTopRaise(c)
  \/ \E r \in Rankings : CmpTop(c, TopMoves(sf_fen, TopCmp, r))

Workers ==
  \/ \E w \in AiIds : AiWorker(w)
  \/ \E c \in CmpIds : CmpWorker(c)

\* The application without an engine (manual mode), from its construction:
\* the user's drags and every button of the panel.
ManMoves == 1
ManPlace == 1
ManOff   == 1
NextManual == Drag \/ Panel \/ Castling
SpecManual ==
  /\ Construct(FALSE, Budget(ManMoves, ManPlace, 0, 0, 0, ManOff))
  /\ [][NextManual]_vars

\* The same, with one move more: a history of two moves, and a move after
\* a reset that follows a move.
DeskMoves == 2
SpecDesk ==
  /\ Construct(FALSE, Budget(DeskMoves, ManPlace, 0, 0, 0, ManOff))
  /\ [][NextManual]_vars

\* The application with an engine, from its construction, analysing the
\* user's moves: drags, the mode buttons, Clear and Reset, and the comparison
\* threads.
AnaMoves == 2
AnaCmp   == 2
SpecAnalysis ==
  /\ Construct(TRUE, Budget(AnaMoves, 0, 0, 0, AnaCmp, 0))
  /\ [][\/ Drag
        \/ \E n \in ModeButtons : SelectMode(n)
        \/ ClearBoard
        \/ ResetPosition
        \/ \E c \in CmpIds : CmpWorker(c)]_vars

\* The application with an engine, from its construction, playing against
\* it: drags, the mode buttons, the VS AI and Best Move buttons, and all the
\* worker threads, one engine request at a time.
PlayMoves == 2
PlayReq   == 1
PlayAI    == 1
PlayCmp   == 1
NextPlay ==
  \/ Drag
  \/ \E n \in ModeButtons : SelectMode(n)
  \/ ToggleVsAi
  \/ GetBestMove
  \/ Workers
SpecPlay ==
  /\ Construct(TRUE, Budget(PlayMoves, 0, PlayReq, PlayAI, PlayCmp, 0))
  /\ [][NextPlay]_vars

\* The same, with one move more: a request outlives two moves of the user.
StaleMoves == 3
SpecStale ==
  /\ Construct(TRUE, Budget(StaleMoves, 0, PlayReq, PlayAI, PlayCmp, 0))
  /\ [][NextPlay]_vars

\* Playing against the engine (Play mode, VS AI on) with a second request
\* issued while the first is running: drags, Best Move and the threads.
RaceMoves == 1
RaceReq   == 2
RaceAI    == 2
RaceCmp   == 1
SpecRace ==
  /\ Started(TRUE, PLAY_MODE, TRUE, Budget(RaceMoves, 0, RaceReq, RaceAI, RaceCmp, 0))
  /\ [][Drag \/ GetBestMove \/ Workers]_vars

\* Requests that fail: Play mode with VS AI on, with an engine or without
\* one; drags, Best Move, Clear (an empty board has no move to suggest) and
\* the threads, the engine's calls raising or not.
SentMoves == 1
SentReq   == 2
SpecSentinel ==
  /\ \E engine \in BOOLEAN :
        Started(engine, PLAY_MODE, TRUE,
                Budget(SentMoves, 0, SentReq, PlayAI, PlayCmp, 0))
  /\ [][Drag \/ GetBestMove \/ ClearBoard \/ Workers]_vars

\* Rearranging the pieces while the engine is at work: from Play mode with
\* VS AI on, drags (one move or one Setup placement), the mode buttons, Best
\* Move and the threads.
SpecBench ==
  /\ Started(TRUE, PLAY_MODE, TRUE,
             Budget(RaceMoves, ManPlace, PlayReq, PlayAI, PlayCmp, 0))
  /\ [][\/ Drag
        \/ \E n \in ModeButtons : SelectMode(n)
        \/ GetBestMove
        \/ Workers]_vars

\* The castling boxes, all four of them free to be unticked together: the
\* application without an engine, drags (one move), the mode buttons and the
\* boxes.
BoxOff == 4
SpecBoxes ==
  /\ Construct(FALSE, Budget(ManMoves, 0, 0, 0, 0, BoxOff))
  /\ [][\/ Drag
        \/ \E n \in ModeButtons : SelectMode(n)
        \/ Castling]_vars

\* Requests and nothing else from the user: Play mode with VS AI on and an
\* engine, Best Move clicked up to LiveReq times, Clear (after it the engine
\* has no candidate), and the threads, scheduled fairly: while some thread
\* can run, one of them does.
LiveReq == 2
SpecLive ==
  /\ Started(TRUE, PLAY_MODE, TRUE, Budget(LiveReq, 0, LiveReq, RaceAI, PlayCmp, 0))
  /\ [][GetBestMove \/ ClearBoard \/ Workers]_vars
  /\ WF_vars(Workers)

\* The selection alone: an ai_worker thread about to read the engine's
\* answer, any list of up to TopAI candidates, and the writes of the
\* suggestion.  Candidate n is the n-th move of an enumeration of the moves;
\* an answer lists k consecutive candidates from number o + 1 on, scored in
\* centipawns or not (a forced mate).
SelShift == 11
AnyMove(n) ==
  [from  |-> (((n - 1) \div NSq) % NSq) + 1,
   to    |-> ((n - 1) % NSq) + 1,
   promo |-> ""]
Candidate(n, scored) ==
  [Move |-> Uci(AnyMove(n)), Centipawn |-> IF scored THEN Some(10 * n) ELSE None]
Candidates(k, o, scored) == [i \in 1..k |-> Candidate(i + o, scored)]
SelAnswers ==
  {Candidates(k, o, scored) : k \in 0..TopAI, o \in 0..SelShift,
                              scored \in BOOLEAN}
InitSelect ==
  /\ aiw = [w \in AiIds |->
              IF w = 1
              THEN [NewAi EXCEPT !.pc = "top", !.fen = Some(Fen(StartBoard))]
              ELSE IdleAi]
  /\ board = StartBoard
  /\ current_mode = ANALYSIS_MODE
  /\ active_color = WHITE
  /\ castling_rights = [n \in CastlingNames |-> TRUE]
  /\ play_vs_ai = FALSE
  /\ stockfish_ai = TRUE
  /\ ai_thinking = TRUE
  /\ last_ai_move = "None"
  /\ last_ai_eval = None
  /\ ai_suggested_square = None
  /\ stockfish_comparison = None
  /\ move_history = << >>
  /\ position_history = << >>
  /\ selected_piece = None
  /\ dragging = FALSE
  /\ valid_moves = {}
  /\ sf_fen = Fen(StartBoard)
  /\ cmpw = [c \in CmpIds |-> IdleCmp]
  /\ budget = Budget(0, 0, 0, 0, 0, 0)
  /\ ev = NoEvent
  /\ NoDataset
SpecSelect ==
  /\ InitSelect
  /\ [][\E w \in AiIds :
           \/ \E top_moves \in SelAnswers : AiTopOf(w, top_moves)
           \/ AiSlotMove(w)
           \/ AiSlotEval(w)
           \/ AiSlotSquare(w)]_vars

\* A pawn led to the square before its last: the application without an
\* engine, drags (Setup placements that clear the pawn's way, then one move)
\* and the mode buttons.
PromoMoves == 1
PromoPlace == 2
SpecPromo ==
  /\ Construct(FALSE, Budget(PromoMoves, PromoPlace, 0, 0, 0, 0))
  /\ [][\/ Drag
        \/ \E n \in ModeButtons : SelectMode(n)]_vars

\* The comparator alone: a comparison thread for any user move, about to
\* read the engine's answer, and any answer of up to RankLen entries.
RankLen == 3
MoveIds == {Uci(m) : m \in {Move(1, 2), Move(3, 4), Move(5, 4)}}
Scores  == {None, Some(20)}
Entries == [Move : MoveIds, Centipawn : Scores]
Answers == UNION {[1..n -> Entries] : n \in 0..RankLen}
InitRank ==
  /\ \E u \in MoveIds :
       cmpw = [c \in CmpIds |->
                 IF c = 1
                 THEN [NewCmp(u, Fen(StartBoard)) EXCEPT
                         !.pc = "top", !.fen = Some(Fen(StartBoard))]
                 ELSE IdleCmp]
  /\ board = StartBoard
  /\ current_mode = ANALYSIS_MODE
  /\ active_color = WHITE
  /\ castling_rights = [n \in CastlingNames |-> TRUE]
  /\ play_vs_ai = FALSE
  /\ stockfish_ai = TRUE
  /\ ai_thinking = FALSE
  /\ last_ai_move = "None"
  /\ last_ai_eval = None
  /\ ai_suggested_square = None
  /\ stockfish_comparison = None
  /\ move_history = << >>
  /\ position_history = << >>
  /\ selected_piece = None
  /\ dragging = FALSE
  /\ valid_moves = {}
  /\ sf_fen = Fen(StartBoard)
  /\ aiw = [w \in AiIds |-> IdleAi]
  /\ budget = Budget(0, 0, 0, 0, 0, 0)
  /\ ev = NoEvent
  /\ NoDataset
SpecRank ==
  /\ InitRank
  /\ [][\E c \in CmpIds, top_moves \in Answers : CmpTop(c, top_moves)]_vars

\* ============================================================ properties
\* the source square of the drag under way
Source == selected_piece[1]
KingOn(b, s) == b.sq[s] # Empty /\ KindOf(b.sq[s]) = "K"

\* C1: a request superseded by a later one never has its result applied: no
\* step of its ai_worker changes the suggestion slot (last_ai_move,
\* last_ai_eval, ai_suggested_square), the board or the histories.
C1_SupersededNeverApplied ==
  [][\A w \in AiIds :
       (aiw[w].superseded /\ AiWorker(w)) => UNCHANGED <<slot, store>>]_vars

\* C2: an ai_worker pushes its move only onto the position it submitted to
\* the engine: at its push the board's FEN is the FEN it gave set_fen_position.
C2_AppliedOnSubmittedPosition ==
  [][\A w \in AiIds : AiPush(w) => aiw[w].fen = Some(Fen(board))]_vars

\* C3: in Analysis or Play mode the release of a drag that is a legal move
\* succeeds, each history grows by exactly one entry, and the board is the
\* prior board with the piece moved from the source to the target and the
\* side to move flipped.
C3_LegalMoveApplied ==
  [][\A t \in Squares :
       ( /\ MouseUp(t)
         /\ current_mode # SETUP_MODE
         /\ Move(Source, t) \in LegalMoves(Fen(board)) )
       => /\ ev'.ok
          /\ Len(move_history') = Len(move_history) + 1
          /\ move_history'[Len(move_history')] = Move(Source, t)
          /\ Len(position_history') = Len(position_history) + 1
          /\ position_history'[Len(position_history')] = Fen(board)
          /\ board'.sq[t] = board.sq[Source]
          /\ board'.sq[Source] = Empty
          /\ \A s \in Squares \ {Source, t} : board'.sq[s] = board.sq[s]
          /\ board'.turn = Other(board.turn)]_vars

C3_Witness ==
  /\ ev.op = "mouse_up" /\ ev.ok
  /\ current_mode = PLAY_MODE
  /\ Len(move_history) = 2
  /\ Len(position_history) = 2

\* C4: in Analysis or Play mode the release of a drag that is not a legal
\* move (or ends off the board) fails, the handler completes, the board, the
\* side to move and both histories are unchanged, and no comparison thread
\* and no engine request is started.
C4_RejectedMoveNoEffect ==
  [][\A t \in Squares \cup {0} :
       ( /\ MouseUp(t)
         /\ current_mode # SETUP_MODE
         /\ (t = 0 \/ Move(Source, t) \notin LegalMoves(Fen(board))) )
       => /\ ~ev'.ok
          /\ ~dragging'
          /\ UNCHANGED <<board, move_history, position_history>>
          /\ UNCHANGED <<cmpw, aiw, sf_fen, ai_thinking>>]_vars

C4_Witness ==
  /\ ev.op = "mouse_up" /\ ~ev.ok /\ ev.arg # 0
  /\ current_mode = PLAY_MODE /\ play_vs_ai
  /\ Len(move_history) = 1
  /\ \A w \in AiIds : aiw[w].pc = "idle"

C6_SetupPlacementRelocates ==
  [][\A t \in Squares :
       ( /\ MouseUp(t)
         /\ current_mode = SETUP_MODE
         /\ board.sq[Source] # Empty
         /\ ~KingOn(board, t) )
       => /\ ev'.ok
          /\ board'.sq[t] = board.sq[Source]
          /\ (Source # t => board'.sq[Source] = Empty)
          /\ \A s \in Squares \ {Source, t} : board'.sq[s] = board.sq[s]]_vars

\* a pawn dropped on another square, which the start position has empty
C6_Witness ==
  /\ ev.op = "mouse_up" /\ ev.ok
  /\ current_mode = SETUP_MODE
  /\ board.sq[ev.arg] = "wP"
  /\ StartSquares[ev.arg] = Empty
  /\ \A s \in Squares \ {ev.arg} : board.sq[s] # "wP"

\* C7: a click on a mode button changes neither the board contents, nor the
\* side to move, nor the castling flags, nor the histories.
C7_ModeKeepsPosition ==
  [][(\E n \in ModeButtons : SelectMode(n))
       => UNCHANGED <<board, active_color, castling_rights, move_history,
                      position_history>>]_vars

\* Setup selected again after a move and with a castling box unticked
C7_Witness ==
  /\ current_mode = SETUP_MODE
  /\ Len(move_history) = 1
  /\ board.turn = BLACK
  /\ \E n \in CastlingNames : ~castling_rights[n]

\* C8: after a click on a mode button nothing is selected, no drag is under
\* way, no target square is marked and no AI-suggestion square is marked.
C8_ModeClearsHighlights ==
  [][(\E n \in ModeButtons : SelectMode(n))
       => /\ selected_piece' = None
          /\ ~dragging'
          /\ valid_moves' = {}
          /\ ai_suggested_square' = None]_vars

\* C9: the comparison stored for the engine's answer top_moves has user_rank
\* the 1-based index of the first entry whose move is the user's, None when
\* there is none, and top_moves the answer's entries, move and score, in the
\* answer's order.
C9_RankAndListStored ==
  [][\A c \in CmpIds, top_moves \in Answers :
       CmpTop(c, top_moves)
       => LET stored == stockfish_comparison'[1]
              user   == cmpw[c].user_move
              before(k) == \A j \in 1..(k - 1) : top_moves[j].Move # user
          IN /\ stockfish_comparison' # None
             /\ IF \E i \in 1..Len(top_moves) : top_moves[i].Move = user
                THEN /\ stored.user_rank # None
                     /\ stored.user_rank[1] \in 1..Len(top_moves)
                     /\ top_moves[stored.user_rank[1]].Move = user
                     /\ before(stored.user_rank[1])
                ELSE stored.user_rank = None
             /\ Len(stored.top_moves) = Len(top_moves)
             /\ \A i \in 1..Len(top_moves) :
                  /\ stored.top_moves[i].move = top_moves[i].Move
                  /\ stored.top_moves[i].centipawn = top_moves[i].Centipawn]_vars

\* the user's move is the second and the third entry of the answer
C9_Witness ==
  /\ stockfish_comparison # None
  /\ LET stored == stockfish_comparison[1] IN
     /\ stored.user_rank = Some(2)
     /\ Len(stored.top_moves) = 3
     /\ stored.top_moves[3].move = stored.user_move
     /\ stored.top_moves[1].move # stored.user_move

\* C10: the position a comparison_worker gives the engine is the position
\* make_move recorded in position_history for the move it compares.
C10_ComparesPositionBeforeMove ==
  \A c \in CmpIds : cmpw[c].pc = "top" => cmpw[c].fen = cmpw[c].want

\* C11: the worker threads never change the board, the side to move or the
\* histories: every step of an ai_worker or of a comparison_worker leaves
\* board, move_history and position_history as they are.
C11_WorkersLeaveStore ==
  [][((\E w \in AiIds : AiWorker(w)) \/ (\E c \in CmpIds : CmpWorker(c)))
       => UNCHANGED store]_vars

\* C12: an ai_worker applies its move (the appends and the push of
\* make_move) only in Play mode, with VS AI on, when the side to move is not
\* the user's colour.
C12_AppliesOnEnginesTurnOnly ==
  [][\A w \in AiIds :
       (AiHistMove(w) \/ AiHistPos(w) \/ AiPush(w))
       => /\ current_mode = PLAY_MODE
          /\ play_vs_ai
          /\ board.turn # active_color]_vars

\* C13: every push onto the board is the push of a move that is legal in
\* the position the board holds at that instant.
C13_PushedMovesAreLegal ==
  [][Len(board'.stack) > Len(board.stack)
       => \E m \in LegalMoves(Fen(board)) :
             /\ board'.sq = MovedSquares(Fen(board), m)
             /\ board'.turn = Other(board.turn)]_vars

\* C14: a request that cannot be answered publishes a sentinel and a null
\* evaluation and changes neither board nor histories: "No AI available"
\* from get_ai_move itself when there is no engine (and no thread is
\* started), "No moves" when the engine returns no candidate, "AI Error"
\* when the engine raises; the worker then runs on to its finally.
FailurePcs == {"none_move", "none_eval", "err_move", "err_eval"}

C14_SentinelOnFailure ==
  [][/\ (~stockfish_ai /\ GetBestMove)
          => /\ last_ai_move' = "No AI available"
             /\ last_ai_eval' = None
             /\ UNCHANGED <<store, aiw, ai_thinking>>
     /\ \A w \in AiIds :
          /\ (AiAt(w, "top") /\ AiWorker(w))
                => /\ UNCHANGED <<store, slot>>
                   /\ (\A r \in Rankings : TopMoves(sf_fen, TopAI, r) = << >>)
                         => aiw'[w].pc \in {"none_move", "err_move"}
          /\ (AiAt(w, "none_move") /\ AiWorker(w))
                => /\ last_ai_move' = "No moves"
                   /\ aiw'[w].pc = "none_eval"
          /\ (AiAt(w, "err_move") /\ AiWorker(w))
                => /\ last_ai_move' = "AI Error"
                   /\ aiw'[w].pc = "err_eval"
          /\ (aiw[w].pc \in {"none_eval", "err_eval"} /\ AiWorker(w))
                => /\ last_ai_eval' = None
                   /\ aiw'[w].pc = "finally"
          /\ (aiw[w].pc \in FailurePcs /\ AiWorker(w)) => UNCHANGED store]_vars

\* after a suggestion was shown, an empty board gets the sentinel "No moves"
C14_Witness ==
  /\ last_ai_move = "No moves"
  /\ last_ai_eval = None
  /\ ai_suggested_square # None
  /\ board.sq = EmptySquares
  /\ \A w \in AiIds : aiw[w].pc = "idle"

\* C15: the interaction thread never waits while it handles a user action:
\* no click on Best Move and no release of a drag that starts a request runs
\* the sleep of get_ai_move.
C15_InteractionNeverWaits ==
  [][(GetBestMove \/ ((\E t \in Squares : MouseUp(t)) /\ aiw' # aiw))
       => ~GetAiMoveSleeps]_vars

\* C16: the histories are append-only: every step except Clear and Reset
\* keeps the entries of move_history and of position_history as a prefix of
\* the new ones.
IsPrefix(a, b) == Len(a) <= Len(b) /\ \A i \in 1..Len(a) : b[i] = a[i]

C17_ResetThenFirstMove ==
  [][/\ ResetPosition
          => /\ board'.sq = StartSquares
             /\ board'.turn = WHITE
             /\ board'.stack = << >>
             /\ move_history' = << >>
             /\ position_history' = << >>
     /\ \A t \in Squares :
          ( /\ MouseUp(t)
            /\ ev'.ok
            /\ current_mode = PLAY_MODE
            /\ board.sq = StartSquares /\ board.turn = WHITE
            /\ move_history = << >> /\ position_history = << >> )
          => /\ Len(move_history') = 1
             /\ Len(position_history') = 1
             /\ board'.turn = BLACK]_vars

\* a move, black selected as the user's colour, Reset, and a move again
C17_Witness ==
  /\ ev.op = "mouse_up" /\ ev.ok
  /\ current_mode = PLAY_MODE
  /\ budget.move = DeskMoves - 2
  /\ Len(move_history) = 1
  /\ Len(board.stack) = 1
  /\ active_color = BLACK
  /\ board.turn = BLACK

\* C18: the histories record, entry by entry, the position the board held
\* immediately before the move of that entry was pushed: whenever no
\* make_move is under way, the histories and the board's stack of pushed
\* positions have the same length and position_history[i] is the position
\* the i-th push found.
C18_HistoryRecordsPositionBefore ==
  (\A w \in AiIds : aiw[w].pc \notin {"hist_pos", "push"})
    => /\ Len(move_history) = Len(position_history)
       /\ Len(position_history) = Len(board.stack)
       /\ \A i \in 1..Len(position_history) :
            position_history[i] = board.stack[i]

\* C19: a reader never sees a half-written suggestion: when the panel shows
\* the suggestion (ai_thinking is false) and last_ai_move is a move, the
\* evaluation is there and the highlighted square is that move's target.
Sentinels == {"None", "No AI available", "No moves", "AI Error"}

C19_SuggestionFromOneRequest ==
  (~ai_thinking /\ last_ai_move \notin Sentinels)
    => /\ last_ai_eval # None
       /\ ai_suggested_square = Some(FromUci(last_ai_move).to)

\* C20: the engine answers each worker for the position this worker gave
\* it: while a worker is between its set_fen_position and its get_top_moves,
\* the engine's position is the one the worker set.
C20_OracleKeepsWorkersPosition ==
  /\ \A w \in AiIds : aiw[w].pc = "top" => aiw[w].fen = Some(sf_fen)
  /\ \A c \in CmpIds : cmpw[c].pc = "top" => cmpw[c].fen = Some(sf_fen)

\* C21: a move that the engine's worker applies starts no comparison: the
\* step of the worker that pushes its move leaves the comparison threads as
\* they are.
C21_EngineMoveStartsNoComparison ==
  [][\A w \in AiIds : AiPush(w) => UNCHANGED cmpw]_vars

\* C22: a result computed for a position that a Clear has since replaced never
\* surfaces: on the cleared board, where no move exists to suggest or to
\* compare, the suggestion holds no move and the comparison is empty.
C22_NothingSurfacesAfterClear ==
  board.sq = EmptySquares
    => /\ last_ai_move \in Sentinels
       /\ stockfish_comparison = None

\* C23: ai_thinking is true in every state in which an engine request has
\* been issued and its worker thread has not finished.
C23_BusyWhileWorkerRuns ==
  (\E w \in AiIds : aiw[w].pc # "idle") => ai_thinking

\* C24: every engine request returns the orchestrator to idle.  With the
\* worker threads scheduled fairly and every engine call returning or
\* raising, ai_thinking is eventually false for good once the last request
\* has been issued; and once every worker has finished with ai_thinking
\* false, no step makes it true before a new request starts a worker.
C24_ReturnsToIdle ==
  /\ <>[](~ai_thinking)
  /\ [][((\A w \in AiIds : aiw[w].pc = "idle") /\ ~ai_thinking)
          => ~ai_thinking']_vars

C24_Witness ==
  /\ ~ai_thinking
  /\ budget.req = 0
  /\ \A w \in AiIds : aiw[w].pc = "idle"
  /\ last_ai_move = "AI Error"
  /\ Len(move_history) = 1

\* C25: a successful move of the user starts an engine request exactly when
\* the mode is Play, VS AI is on and the side to move after the move is not
\* the user's active colour.
C25_RequestAfterMoveIff ==
  [][\A t \in Squares :
       (MouseUp(t) /\ ev'.ok /\ current_mode # SETUP_MODE)
         => ((\E w \in AiIds : aiw[w].pc = "idle" /\ aiw'[w].pc = "start")
               <=> (/\ current_mode = PLAY_MODE
                    /\ play_vs_ai
                    /\ board'.turn # active_color))]_vars

C25_Witness ==
  /\ ev.op = "mouse_up" /\ ev.ok
  /\ current_mode = PLAY_MODE
  /\ play_vs_ai
  /\ board.turn # active_color
  /\ Len(move_history) = 1
  /\ \E w \in AiIds : aiw[w].pc = "start"

C27_ManualModeWorks ==
  /\ [](/\ \A w \in AiIds : aiw[w].pc = "idle"
        /\ \A c \in CmpIds : cmpw[c].pc = "idle"
        /\ stockfish_comparison = None)
  /\ [][\A t \in Squares :
          (/\ MouseUp(t)
           /\ current_mode # SETUP_MODE
           /\ Move(Source, t) \in LegalMoves(Fen(board)))
            => /\ board' = Push(board, Move(Source, t))
               /\ move_history' = Append(move_history, Move(Source, t))
               /\ position_history' = Append(position_history, Fen(board))]_vars

C27_Witness ==
  /\ ~stockfish_ai
  /\ ev.op = "mouse_up" /\ ev.ok
  /\ current_mode = PLAY_MODE
  /\ play_vs_ai
  /\ Len(move_history) = 1
  /\ Len(board.stack) = 1
  /\ last_ai_move = "No AI available"

\* C28: in Setup mode a drop whose source square is empty when the drop is
\* handled changes nothing on the board; in particular the piece standing on
\* the target stays.
C28_EmptySourceChangesNothing ==
  [][\A t \in Squares \cup {0} :
       (MouseUp(t) /\ current_mode = SETUP_MODE /\ board.sq[Source] = Empty)
         => board'.sq = board.sq]_vars

\* C29: of the candidates the engine returns (k of them, at most 12, k >= 1)
\* the worker selects the one of 1-based rank min(10, k), and the suggestion
\* it records is that candidate's move id.
C29_SelectsTenthOrLast ==
  [][\A w \in AiIds :
       /\ \A top_moves \in SelAnswers :
            (AiTopOf(w, top_moves) /\ Len(top_moves) >= 1)
              => aiw'[w].sel =
                   top_moves[IF Len(top_moves) >= 10 THEN 10
                             ELSE Len(top_moves)].Move
       /\ (AiSlotMove(w) /\ AiAt(w, "slot_move"))
            => last_ai_move' = aiw[w].sel]_vars

C29_Witness ==
  /\ aiw[1].pc = "check"
  /\ last_ai_move = Uci(AnyMove(10 + SelShift))
  /\ last_ai_eval = Some(10 * (10 + SelShift))
  /\ ai_suggested_square = Some(AnyMove(10 + SelShift).to)

\* C30: a click on a castling box flips that flag and nothing else: the
\* other three flags, the board, the mode and the histories stay.
C30_CastlingBoxFlipsOneFlag ==
  [][\A n \in CastlingNames :
       ToggleCastling(n)
         => /\ castling_rights'[n] = ~castling_rights[n]
            /\ \A m \in CastlingNames \ {n} :
                 castling_rights'[m] = castling_rights[m]
            /\ UNCHANGED <<store, current_mode>>]_vars

C30_Witness ==
  /\ ~castling_rights["white_kingside"]
  /\ ~castling_rights["black_queenside"]
  /\ castling_rights["white_queenside"]
  /\ castling_rights["black_kingside"]
  /\ Len(board.stack) = 1
  /\ Len(move_history) = 1
  /\ current_mode = ANALYSIS_MODE

\* C31: in Analysis and Play mode a drag is tested as a move with no
\* promotion piece: a pawn dropped on its last square is rejected and the
\* board and the histories stay, and no move a drag applies is a promotion.
C31_NoPromotionByDrag ==
  [][\A t \in Squares :
       (MouseUp(t) /\ current_mode # SETUP_MODE)
         => /\ (/\ board.sq[Source] # Empty
                /\ KindOf(board.sq[Source]) = "P"
                /\ t = LastSquare(ColorOf(board.sq[Source])))
                 => (UNCHANGED store /\ ~ev'.ok)
            /\ \/ UNCHANGED store
               \/ /\ move_history' =
                       Append(move_history,
                              [from |-> Source, to |-> t, promo |-> ""])
                  /\ board'.sq[t] = board.sq[Source]]_vars

C31_Witness ==
  /\ ev.op = "mouse_up" /\ ev.arg = NSq /\ ~ev.ok
  /\ current_mode # SETUP_MODE
  /\ board.turn = WHITE
  /\ board.sq[NSq - 1] = "wP"
  /\ [from |-> NSq - 1, to |-> NSq, promo |-> "q"] \in LegalMoves(Fen(board))
  /\ budget.move = PromoMoves
  /\ move_history = << >>

\* C32: 'white to move' and 'black to move' set the user's colour and the
\* board's side to move to that colour, in every mode, and leave the pieces,
\* the mode and the histories; Clear and Reset give the move to white and
\* leave the user's colour.
C32_SideToMoveButtons ==
  [][/\ \A c \in Colors :
          SetActiveColor(c)
            => /\ active_color' = c
               /\ board'.turn = c
               /\ board'.sq = board.sq
               /\ UNCHANGED <<current_mode, move_history, position_history>>
     /\ (ClearBoard \/ ResetPosition)
          => /\ board'.turn = WHITE
             /\ active_color' = active_color]_vars

C32_Witness ==
  /\ active_color = BLACK
  /\ board.turn = WHITE
  /\ board.sq = EmptySquares
  /\ current_mode = PLAY_MODE
  /\ budget.move = 0

\* C33: whenever no make_move is under way, move_history and
\* position_history have the same length.
C33_HistoriesSameLength ==
  (\A w \in AiIds : aiw[w].pc \notin {"hist_pos", "push"})
    => Len(move_history) = Len(position_history)

\* C34: a Setup action adds no piece and removes no king: after a drop in
\* Setup mode the board holds no more pieces than before and as many kings
\* of each colour; and an empty board stays empty until Reset.
PieceCount(sq) == Cardinality({s \in Squares : sq[s] # Empty})
KingCount(sq, c) == Cardinality({s \in Squares : sq[s] = PieceOf(c, "K")})

C34_SetupAddsNoPieceKeepsKings ==
  [][/\ \A t \in Squares \cup {0} :
          (MouseUp(t) /\ current_mode = SETUP_MODE)
            => /\ PieceCount(board'.sq) <= PieceCount(board.sq)
               /\ \A c \in Colors :
                    KingCount(board'.sq, c) = KingCount(board.sq, c)
     /\ (board.sq = EmptySquares /\ ~ResetPosition)
          => board'.sq = EmptySquares]_vars

C34_Witness ==
  /\ ev.op = "mouse_up" /\ ev.ok
  /\ current_mode = SETUP_MODE
  /\ budget.place = 0
  /\ PieceCount(board.sq) = 2
  /\ \A c \in Colors : KingCount(board.sq, c) = 1

\* C35: a drop in Setup mode, applied or rejected, leaves the side to move,
\* the castling flags and both histories, and starts neither a comparison
\* nor an engine request.
C35_SetupDropFrame ==
  [][\A t \in Squares \cup {0} :
       (MouseUp(t) /\ current_mode = SETUP_MODE)
         => /\ board'.turn = board.turn
            /\ UNCHANGED <<castling_rights, move_history, position_history,
                           aiw, cmpw>>]_vars

C35_Witness ==
  /\ ev.op = "mouse_up" /\ ev.ok
  /\ current_mode = SETUP_MODE
  /\ stockfish_ai /\ play_vs_ai
  /\ budget.place = 0
  /\ Len(move_history) = 1
  /\ board.turn = BLACK
  /\ \A w \in AiIds : aiw[w].pc = "idle"
  /\ \A c \in CmpIds : cmpw[c].pc = "idle"

\* ======================================= DatasetProcessor.process_files
\* The files of the run and the games in them.  Three games stand for the
\* kinds process_files tells apart: two that parse_game accepts, with
\* different rows, and one it rejects that has a row to give.
MaxGames     == 2    \* max_games is 0..MaxGames
MaxFileGames == 2    \* games in one file

Headers(white_elo, black_elo, time_control) ==
  [WhiteElo |-> white_elo, BlackElo |-> black_elo,
   TimeControl |-> time_control]
AGame(black_elo, setup, plies) ==
  [headers |-> Headers(Some(<<"2", "5", "0", "0">>), Some(black_elo), None),
   setup   |-> setup,
   moves   |-> [i \in 1..plies |-> [capture |-> FALSE]]]
FileGames ==
  {AGame(<<"2", "5", "0", "0">>, MinPieces + 2, OpeningPlies + 1),
   AGame(<<"2", "5", "0", "0">>, MinPieces + 1, OpeningPlies + 2),
   AGame(<<"2", "3", "9", "9">>, MinPieces + 2, OpeningPlies + 1)}
FileContents == UNION {[1..n -> FileGames] : n \in 0..MaxFileGames}

\* what dataset_path may name: nothing, one file, or a directory that holds
\* any of a PGN file, a PGN file in a directory below, and another file
TopTxt == <<Name(4, ".txt")>>
Disks ==
  {NoDisk}
    \cup {[kind |-> "file", suffix |-> s, content |-> (Root :> c)] :
            s \in {".pgn", ".txt"}, c \in FileContents}
    \cup {[kind |-> "dir", suffix |-> "", content |-> c] :
            c \in UNION {{t \in [S -> FileContents] :
                            TopTxt \in S => t[TopTxt] = << >>} :
                           S \in SUBSET {<<Name(1, ".pgn")>>,
                                         <<Name(2, ""), Name(3, ".pgn")>>,
                                         TopTxt}}}

\* the games of the file open now: open(pgn_file) of line 173
Opened == disk.content[pgn_files[file_no]]

counts == <<processed_games, skipped_games, all_positions>>
given  == <<disk, max_games>>

\* lines 148-158: the files are listed; none found raises FileNotFoundError
FindFiles ==
  /\ dpc = "find"
  /\ pgn_files' = FindPgnFiles(disk)
  /\ dpc' = IF FindPgnFiles(disk) = << >> THEN "raised" ELSE "for"
  /\ UNCHANGED <<given, file_no, f, counts, game, game_info, gen>>
  /\ UNCHANGED app

\* lines 170-173: the next file is opened; after the last one the loop ends
NextFile ==
  /\ dpc = "for"
  /\ IF file_no < Len(pgn_files)
     THEN /\ file_no' = file_no + 1
          /\ f' = 0
          /\ dpc' = "while"
     ELSE /\ dpc' = "stats"
          /\ UNCHANGED <<file_no, f>>
  /\ UNCHANGED <<given, pgn_files, counts, game, game_info, gen>>
  /\ UNCHANGED app

\* A faulty variant: a game parse_game rejects counts as processed too.
ReadGameCountsSkipped ==
  /\ dpc = "while"
  /\ IF processed_games < max_games /\ f < Len(Opened)
     THEN /\ f' = f + 1
          /\ game' = Opened[f + 1]
          /\ game_info' = ParseGame(Opened[f + 1])
          /\ IF ParseGame(Opened[f + 1]) = None
             THEN /\ skipped_games' = skipped_games + 1
                  /\ processed_games' = processed_games + 1
                  /\ UNCHANGED all_positions
             ELSE /\ all_positions' =
                       all_positions \o ExtractPositions(Opened[f + 1])
                  /\ processed_games' = processed_games + 1
                  /\ UNCHANGED skipped_games
          /\ UNCHANGED dpc
     ELSE /\ dpc' = "after"
          /\ UNCHANGED <<f, game, game_info, counts>>
  /\ UNCHANGED <<given, pgn_files, file_no, gen>>
  /\ UNCHANGED app

\* lines 174-198, one turn of the while loop: it ends when max_games games
\* are processed or read_game finds no game more; a game read is skipped or
\* its positions are taken
ReadGame ==
  /\ dpc = "while"
  /\ IF processed_games < max_games /\ f < Len(Opened)
     THEN /\ f' = f + 1
          /\ game' = Opened[f + 1]
          /\ game_info' = ParseGame(Opened[f + 1])
          /\ IF ParseGame(Opened[f + 1]) = None
             THEN /\ skipped_games' = skipped_games + 1
                  /\ UNCHANGED <<processed_games, all_positions>>
             ELSE /\ all_positions' =
                       all_positions \o ExtractPositions(Opened[f + 1])
                  /\ processed_games' = processed_games + 1
                  /\ UNCHANGED skipped_games
          /\ UNCHANGED dpc
     ELSE /\ dpc' = "after"
          /\ UNCHANGED <<f, game, game_info, counts>>
  /\ UNCHANGED <<given, pgn_files, file_no, gen>>
  /\ UNCHANGED app

\* lines 200-201: with max_games games processed no further file is opened
AfterFile ==
  /\ dpc = "after"
  /\ dpc' = IF processed_games >= max_games THEN "stats" ELSE "for"
  /\ UNCHANGED <<given, pgn_files, file_no, f, counts, game, game_info, gen>>
  /\ UNCHANGED app

\* lines 203-225: the statistics are made and returned
Stats ==
  /\ dpc = "stats"
  /\ dpc' = "done"
  /\ UNCHANGED <<given, pgn_files, file_no, f, counts, game, game_info, gen>>
  /\ UNCHANGED app

\* process_files from its call to its return, the application not run; the
\* call goes on while it can
NextProcess == FindFiles \/ NextFile \/ ReadGame \/ AfterFile \/ Stats
SpecProcess ==
  /\ /\ \E d \in Disks, n \in 0..MaxGames : Running(d, n, "find", NoGame)
     /\ App(FALSE, SETUP_MODE, FALSE, Budget(0, 0, 0, 0, 0, 0))
  /\ [][NextProcess]_vars
  /\ WF_vars(NextProcess)

\* the games read_game has returned so far: the files before the open one
\* were read to their end
RECURSIVE ReadBefore(_)
ReadBefore(n) ==
  IF n = 0 THEN << >>
  ELSE ReadBefore(n - 1) \o disk.content[pgn_files[n]]
GamesRead ==
  IF file_no = 0 THEN << >>
  ELSE ReadBefore(file_no - 1) \o SubSeq(Opened, 1, f)

RECURSIVE RowsOf(_)
RowsOf(games) ==
  IF games = << >> THEN << >>
  ELSE IF ParseGame(Head(games)) # None
       THEN ExtractPositions(Head(games)) \o RowsOf(Tail(games))
       ELSE RowsOf(Tail(games))

\* C36: process_files comes to an end for every set of files; it never
\* counts more than max_games processed games; the processed games are the
\* games read that parse_game accepted, the skipped games those it rejected,
\* and the positions are those of the accepted games and no others.
C36_ProcessFilesBounded ==
  /\ <>(dpc \in {"done", "raised"})
  /\ [](processed_games <= max_games)
  /\ [](LET Accepted(g) == ParseGame(g) # None
            Rejected(g) == ParseGame(g) = None
        IN /\ processed_games = Len(SelectSeq(GamesRead, Accepted))
           /\ skipped_games = Len(SelectSeq(GamesRead, Rejected))
           /\ all_positions = RowsOf(GamesRead))

\* a run over two files that skipped a game, took positions, and stopped at
\* max_games with a game left unread
C36_Witness ==
  /\ dpc = "done"
  /\ file_no = 2
  /\ max_games = MaxGames
  /\ processed_games = max_games
  /\ skipped_games > 0
  /\ all_positions # << >>
  /\ f < Len(Opened)

\* ========================================= DatasetProcessor.parse_game
\* parse_game alone, on a game with any of these headers: a rating absent,
\* empty, not a number, or a number below, at or above the threshold; a time
\* control absent, without '+', with a base time at or below its threshold,
\* or with no base time.
Parse ==
  /\ dpc = "parse"
  /\ game_info' = ParseGame(game)
  /\ dpc' = "parsed"
  /\ UNCHANGED <<given, pgn_files, file_no, f, counts, game, gen>>
  /\ UNCHANGED app
SpecParse ==
  /\ /\ \E w, b \in {None, Some(<< >>), Some(<<"?">>),
                       Some(<<"2", "3", "9", "9">>),
                       Some(<<"2", "4", "0", "0">>),
                       Some(<<"2", "4", "0", "1">>)},
             t \in {None, Some(<<"-">>), Some(<<"6", "0", "0", "+", "0">>),
                    Some(<<"5", "9", "9", "+", "0">>), Some(<<"+", "5">>)} :
          Running(NoDisk, 0, "parse",
                  [NoGame EXCEPT !.headers = Headers(w, b, t)])
     /\ App(FALSE, SETUP_MODE, FALSE, Budget(0, 0, 0, 0, 0, 0))
  /\ [][Parse]_vars

\* C37: parse_game returns a record only for a game whose two ratings are
\* above 2400; with a rating absent, not a number or not above 2400 it
\* returns None.
C37_RecordOnlyAbove2400 ==
  LET Above2400(value) ==
        /\ value # None
        /\ ~IntRaises(value[1])
        /\ Decimal(value[1]) > 2400
  IN dpc = "parsed" =>
       (game_info # None =>
          Above2400(game.headers.WhiteElo) /\ Above2400(game.headers.BlackElo))

\* ==================================== DatasetProcessor.extract_positions
\* The generator alone, run to its end by list(): any game of up to
\* MaxPlies plies with up to MaxCaptures captures, begun with one piece
\* fewer than the threshold, with as many, or with one more.
MaxPlies    == 12
MaxCaptures == 2
Mainlines ==
  {moves \in UNION {[1..n -> [capture : BOOLEAN]] : n \in 0..MaxPlies} :
     Cardinality({i \in DOMAIN moves : moves[i].capture}) <= MaxCaptures}

\* lines 82-107: the loop takes the next move of the mainline
ExtractNext ==
  /\ dpc = "extract"
  /\ gen.move_number < Len(game.moves)
  /\ gen' = ExtractPly(gen, game.moves[gen.move_number + 1])
  /\ UNCHANGED <<given, pgn_files, file_no, f, counts, dpc, game, game_info>>
  /\ UNCHANGED app

\* the mainline is at its end: the generator stops
ExtractEnd ==
  /\ dpc = "extract"
  /\ gen.move_number = Len(game.moves)
  /\ dpc' = "extracted"
  /\ UNCHANGED <<given, pgn_files, file_no, f, counts, game, game_info, gen>>
  /\ UNCHANGED app

SpecExtract ==
  /\ /\ \E s \in (MinPieces - 1)..(MinPieces + 1), moves \in Mainlines :
          Running(NoDisk, 0, "extract",
                  [NoGame EXCEPT !.setup = s, !.moves = moves])
     /\ App(FALSE, SETUP_MODE, FALSE, Budget(0, 0, 0, 0, 0, 0))
  /\ [][ExtractNext \/ ExtractEnd]_vars

\* the board of game g before its ply number i
RECURSIVE BoardBefore(_, _)
BoardBefore(g, i) ==
  IF i = 1 THEN GameBoard(g)
  ELSE PushPly(BoardBefore(g, i - 1), g.moves[i - 1])

\* C38: of the plies gone through, those with a row are the plies whose
\* number is above 10 and before which the board has at least 10 pieces; a
\* row carries the position before its ply and that ply's move, the rows
\* come in the order of the plies, and the generator's board is the game's
\* board after every ply gone through, with a row or without.
C38_RowsAlignedWithPlies ==
  dpc \in {"extract", "extracted"} =>
    LET k    == gen.move_number
        rows == gen.rows
    IN /\ gen.board = BoardBefore(game, k + 1)
       /\ \A i \in 1..k :
            (i > 10 /\ BoardBefore(game, i).pieces >= 10)
              <=> \E j \in 1..Len(rows) : rows[j].move_number = i
       /\ \A j \in 1..Len(rows) :
            /\ rows[j].move_number \in 1..k
            /\ rows[j].fen = BoardFen(BoardBefore(game, rows[j].move_number))
            /\ rows[j].move = game.moves[rows[j].move_number]
       /\ \A j \in 1..(Len(rows) - 1) :
            rows[j].move_number < rows[j + 1].move_number

\* a game gone through to its end: plies of the opening were skipped, a row
\* was given, and a later ply was skipped for its piece count
C38_Witness ==
  /\ dpc = "extracted"
  /\ gen.move_number = MaxPlies
  /\ gen.rows # << >>
  /\ gen.rows[Len(gen.rows)].move_number < gen.move_number
  /\ gen.board.pieces < 10

\* C39: the list find_pgn_files returns, which process_files goes through,
\* holds every PGN file at or below dataset_path, and none of them twice.
C39_EveryFileOnce ==
  LET PgnUnder ==
        IF disk.kind = "file"
        THEN IF disk.suffix = ".pgn" THEN {Root} ELSE {}
        ELSE {p \in DOMAIN disk.content :
                Len(p) >= 1 /\ p[Len(p)].suffix = ".pgn"}
  IN dpc \notin {"find"} =>
       /\ {pgn_files[i] : i \in 1..Len(pgn_files)} = PgnUnder
       /\ \A i, j \in 1..Len(pgn_files) : i # j => pgn_files[i] # pgn_files[j]

====
